---- MODULE Spec2Model ----
(***************************************************************************)
(* Polly-API client functions: register_user, create_poll, fetch_polls,    *)
(* vote_on_poll and get_poll_results.  Each call builds one request, hands *)
(* it to the HTTP transport (requests.post / requests.get), inspects the   *)
(* status code and the body, and returns a value or raises.                *)
(*                                                                         *)
(* A behaviour of the model is one invocation: from the state before the   *)
(* call, one of the five operations runs to completion on arguments and on *)
(* a transport answer chosen by the environment.                           *)
(***************************************************************************)
EXTENDS Integers, Sequences, FiniteSets, TLC

VARIABLES
    pc,         \* "idle" before the call, "done" after it returned or raised
    op,         \* name of the function that was called
    args,       \* its arguments
    response,   \* what the transport did: a response, or a transport exception
    sent,       \* sequence of requests handed to requests.post / requests.get
    branch,     \* which arm of the status-code if/elif chain ran ("none": no arm)
    outcome,    \* what the caller sees: a returned value or a raised exception
    log,        \* records written to the module logger, in order
    jsonErrorIsRequestException
                \* TRUE: requests >= 2.27, Response.json() raises
                \* requests.exceptions.JSONDecodeError (a RequestException and a
                \* ValueError); FALSE: older requests, it raises a plain
                \* json.JSONDecodeError (a ValueError only)

vars == <<pc, op, args, response, sent, branch, outcome, log,
          jsonErrorIsRequestException>>

----------------------------------------------------------------------------
(* Bounds of the explored input space *)

\* longest JSON array in a response body (polls of a list, options of a poll)
MaxItems == 2
\* largest poll_id / option_id tried (the smallest is -1)
MaxId == 2
\* most trailing slashes on base_url
MaxSlashes == 1

----------------------------------------------------------------------------
(* JSON values, as far as the code looks into them.                        *)
(*   t       : the Python type json() produced                             *)
(*   has     : the field names f for which the Python test `f in v` is     *)
(*             True (keys of a dict, elements of a list, substrings of a   *)
(*             str)                                                        *)
(*   options : for a dict with an 'options' key, the value under it        *)
(*   items   : for a list, its elements                                    *)

Fields == {"id", "question", "created_at", "owner_id", "options", "user_id", "option_id"}

OptionFields == {"id", "text"}

NoItems == << >>

\* elements of an 'options' array
OptionItems ==
    [t : {"dict"}, has : SUBSET OptionFields] \cup [t : {"str", "num"}, has : {{}}]

SeqsUpTo(S, n) == UNION {[1..k -> S] : k \in 0..n}

NoOptions == [t |-> "absent", items |-> NoItems]

\* values found under the 'options' key
OptionsValues ==
    [t : {"null", "num", "str", "dict"}, items : {NoItems}]
      \cup [t : {"list"}, items : SeqsUpTo(OptionItems, MaxItems)]

JVal(t, has, options, items) ==
    [t |-> t, has |-> has, options |-> options, items |-> items]

\* Python None; it is also what json() gives for the JSON text `null`
PyNone == JVal("null", {}, NoOptions, NoItems)

\* the key sets tried for JSON objects: each operation's required fields,
\* each with one field dropped, everything and nothing
required_fields(o) ==
    CASE o = "create_poll"      -> {"id", "question", "created_at", "owner_id", "options"}
      [] o = "fetch_polls"      -> {"id", "question", "created_at", "owner_id", "options"}
      [] o = "vote_on_poll"     -> {"id", "user_id", "option_id", "created_at"}
      [] o = "get_poll_results" -> {"id", "question", "options", "created_at", "user_id"}
      [] OTHER                  -> {}

Operations == {"register_user", "create_poll", "fetch_polls", "vote_on_poll", "get_poll_results"}

KeySets ==
    {{}, Fields}
      \cup {required_fields(o) : o \in Operations}
      \cup {required_fields(o) \ {f} : o \in Operations, f \in {"id", "options"}}

\* elements of a top-level array (fetch_polls): objects, and non-objects
PollItems ==
    {JVal("dict", ks, IF "options" \in ks THEN [t |-> "list", items |-> NoItems] ELSE NoOptions, NoItems)
        : ks \in {{}, required_fields("fetch_polls"), required_fields("fetch_polls") \ {"id"}}}
      \cup {JVal(t, {}, NoOptions, NoItems) : t \in {"null", "num", "str", "list"}}

JsonValues ==
    {JVal(t, {}, NoOptions, NoItems) : t \in {"null", "num"}}
      \cup {JVal("str", hs, NoOptions, NoItems) : hs \in {{}, Fields}}
      \cup {JVal("list", {}, NoOptions, its) : its \in SeqsUpTo(PollItems, MaxItems)}
      \cup {JVal("dict", ks, NoOptions, NoItems) : ks \in {k \in KeySets : "options" \notin k}}
      \cup {JVal("dict", ks, o, NoItems) : ks \in {k \in KeySets : "options" \in k}, o \in OptionsValues}

(* Response bodies: no content at all, text that is not JSON, or JSON text *)
Body(kind, val) == [kind |-> kind, val |-> val]

Bodies ==
    {Body("empty", PyNone), Body("text", PyNone)}
      \cup {Body("json", v) : v \in JsonValues}

----------------------------------------------------------------------------
(* What the transport can do with a request *)

StatusCodes == {200, 201, 302, 400, 401, 404, 422, 500}

\* requests exceptions raised by requests.post / requests.get themselves
TransportErrors == {"ConnectionError", "ConnectTimeout", "ReadTimeout", "RequestException"}

HttpResponse(status, body) == [net |-> "ok", status_code |-> status, body |-> body]

TransportFailure(e) == [net |-> e, status_code |-> 0, body |-> Body("empty", PyNone)]

\* statuses whose arm parses the body, tried with every body; the arms of the
\* other statuses only copy response.text, and are tried with one body of
\* each kind
ParsedStatuses == {200, 422}

TextBodies ==
    {Body("empty", PyNone), Body("text", PyNone),
     Body("json", JVal("dict", {}, NoOptions, NoItems))}

Responses ==
    {HttpResponse(s, b) : s \in ParsedStatuses, b \in Bodies}
      \cup {HttpResponse(s, b) : s \in StatusCodes \ ParsedStatuses, b \in TextBodies}
      \cup {TransportFailure(e) : e \in TransportErrors}

NoResponse == [net |-> "none", status_code |-> 0, body |-> Body("empty", PyNone)]

----------------------------------------------------------------------------
(* Python exceptions and the `except` clauses that catch them *)

\* isinstance(exception of class e, cls), for the classes the code names
IsA(e, cls) ==
    \/ e = cls
    \/ cls = "RequestException"
         /\ \/ e \in {"ConnectionError", "ConnectTimeout", "ReadTimeout", "HTTPError"}
            \/ e = "JSONDecodeError" /\ jsonErrorIsRequestException
    \/ cls = "ConnectionError" /\ e = "ConnectTimeout"
    \/ cls = "Timeout" /\ e \in {"ConnectTimeout", "ReadTimeout"}
    \/ cls = "ValueError" /\ e = "JSONDecodeError"

(* What the caller of a function sees *)
Return(v) == [tag |-> "return", exc |-> "none", message |-> "none", detail |-> v]

Raise(e, message, detail) == [tag |-> "raise", exc |-> e, message |-> message, detail |-> detail]

NoDetail == [none |-> TRUE]

\* the literal used when a 422 has no content
ValidationSentinel == [sentinel |-> "Validation error"]

Log(level, text) == [level |-> level, text |-> text]

\* the result of running a piece of a function body
R(o, b, l) == [outcome |-> o, branch |-> b, log |-> l]

(* Python operations on parsed JSON *)

\* `f in v`: membership needs a container
CanContain(v) == v.t \in {"dict", "list", "str"}

\* v.get(...) exists on dicts only
HasGet(v) == v.t = "dict"

\* len(v)
Sized(v) == v.t \in {"dict", "list", "str"}

\* response.json()
json(body) ==
    IF body.kind = "json"
    THEN Return(body.val)
    ELSE Raise("JSONDecodeError", "Expecting value", NoDetail)

\* response.raise_for_status(): raises for 4xx and 5xx only; any other
\* status falls through and the function ends without a return statement
raise_for_status(status) ==
    IF 400 <= status /\ status < 600
    THEN Raise("HTTPError", "Client or Server Error", NoDetail)
    ELSE Return(PyNone)

\* `response.json() if response.content else "Validation error"`
validation_detail(body) ==
    IF body.kind = "empty" THEN Return(ValidationSentinel) ELSE json(body)

----------------------------------------------------------------------------
(* The four raising operations: the statements of the try block that follow *)
(* the request, given the response r it returned                            *)

\* `except requests.exceptions.RequestException as e:` of register_user,
\* create_poll, fetch_polls and vote_on_poll: log, then raise a new
\* RequestException whose message embeds str(e)
FailedMessage(o) ==
    CASE o = "register_user" -> "Failed to register user"
      [] o = "create_poll"   -> "Failed to create poll"
      [] o = "fetch_polls"   -> "Failed to fetch polls"
      [] o = "vote_on_poll"  -> "Failed to cast vote"

\* a function without the except clause: the transport's exception escapes as is
except_RequestException_absent(o, res) == res

except_RequestException(o, res) ==
    IF res.outcome.tag = "raise" /\ IsA(res.outcome.exc, "RequestException")
    THEN R(Raise("RequestException", FailedMessage(o), [cause |-> res.outcome.exc]),
           res.branch,
           Append(res.log, Log("error", "Network error")))
    ELSE res

\* the final `else:` arm: log the status and the text, then raise_for_status()
unexpected_status(r) ==
    R(raise_for_status(r.status_code), "else",
      <<Log("info", "Status"), Log("error", "Unexpected response code")>>)

\* the `elif response.status_code == 422:` arm
validation_error(r, message) ==
    LET d == validation_detail(r.body) IN
    IF d.tag = "raise"
    THEN R(d, "422", <<Log("info", "Status")>>)
    ELSE R(Raise("ValueError", message, d.detail), "422",
           <<Log("info", "Status"), Log("error", "Validation error")>>)

\* an arm that forgets to put response.text in the message
text_error_without_text(r, b, message, logged) ==
    R(Raise("ValueError", message, NoDetail), b,
      <<Log("info", "Status"), Log("error", logged)>>)

\* an `elif` arm that raises ValueError with response.text in the message
text_error(r, b, message, logged) ==
    R(Raise("ValueError", message, r.body), b,
      <<Log("info", "Status"), Log("error", logged)>>)

\* a strict policy: missing fields turn the call into a failure
missing_fields_rejected(data, logged) ==
    R(Raise("ValueError", "missing required fields", NoDetail), "200",
      Append(logged, Log("error", "missing required fields")))

\* the `else:` under the required-fields test of create_poll and
\* vote_on_poll: the missing fields are logged and the data is returned
missing_fields(data, logged) ==
    R(Return(data), "200", Append(logged, Log("warning", "missing required fields")))

register_user_body(r) ==
    IF r.status_code = 200 THEN
        LET j == json(r.body) IN
        IF j.tag = "raise" THEN R(j, "200", <<Log("info", "Status")>>)
        ELSE IF ~HasGet(j.detail)
        THEN R(Raise("AttributeError", "object has no attribute 'get'", NoDetail),
               "200", <<Log("info", "Status")>>)
        ELSE R(Return(j.detail), "200",
               <<Log("info", "Status"), Log("info", "User registered successfully")>>)
    ELSE IF r.status_code = 400 THEN
        text_error(r, "400", "Username already registered", "Username already exists")
    ELSE IF r.status_code = 422 THEN
        validation_error(r, "Invalid input data")
    ELSE unexpected_status(r)

create_poll_body(r) ==
    IF r.status_code = 200 THEN
        LET j == json(r.body)
            poll_data == j.detail
        IN
        IF j.tag = "raise" THEN R(j, "200", <<Log("info", "Status")>>)
        ELSE IF ~HasGet(poll_data)
        THEN R(Raise("AttributeError", "object has no attribute 'get'", NoDetail),
               "200", <<Log("info", "Status")>>)
        ELSE IF required_fields("create_poll") \subseteq poll_data.has
        THEN \* logs len(poll_data.get('options', [])) before returning
             IF ~Sized(poll_data.options)
             THEN R(Raise("TypeError", "object has no len()", NoDetail), "200",
                    <<Log("info", "Status"), Log("info", "Poll created successfully")>>)
             ELSE R(Return(poll_data), "200",
                    <<Log("info", "Status"), Log("info", "Poll created successfully"),
                      Log("info", "Poll has options")>>)
        ELSE missing_fields(poll_data,
                            <<Log("info", "Status"), Log("info", "Poll created successfully")>>)
    ELSE IF r.status_code = 401 THEN
        text_error(r, "401", "Unauthorized - Invalid or expired token", "Authentication failed")
    ELSE IF r.status_code = 422 THEN
        validation_error(r, "Invalid poll data")
    ELSE unexpected_status(r)

\* the per-poll check of fetch_polls' loop: "ok", "warning" (logged), or the
\* exception the check raises
poll_check(poll) ==
    IF ~CanContain(poll) THEN "TypeError"
    ELSE IF required_fields("fetch_polls") \subseteq poll.has THEN "ok"
    ELSE IF HasGet(poll) THEN "warning"
    ELSE "AttributeError"

\* the `for poll in polls_data:` loop from index i, with the log so far
RECURSIVE polls_loop(_, _, _)
polls_loop(polls_data, i, logged) ==
    IF i > Len(polls_data.items) THEN R(Return(polls_data), "200", logged)
    ELSE LET c == poll_check(polls_data.items[i]) IN
         IF c = "ok" THEN polls_loop(polls_data, i + 1, logged)
         ELSE IF c = "warning"
         THEN polls_loop(polls_data, i + 1,
                         Append(logged, Log("warning", "missing required fields")))
         ELSE R(Raise(c, "poll is not an object", NoDetail), "200", logged)

fetch_polls_body(r) ==
    IF r.status_code = 200 THEN
        LET j == json(r.body)
            polls_data == j.detail
        IN
        IF j.tag = "raise" THEN R(j, "200", <<Log("info", "Status")>>)
        ELSE IF ~Sized(polls_data)
        THEN R(Raise("TypeError", "object has no len()", NoDetail),
               "200", <<Log("info", "Status")>>)
        ELSE IF polls_data.t = "list"
        THEN polls_loop(polls_data, 1,
                        <<Log("info", "Status"), Log("info", "Successfully fetched")>>)
        ELSE R(Raise("ValueError", "Invalid response format", NoDetail), "200",
               <<Log("info", "Status"), Log("info", "Successfully fetched"),
                 Log("error", "Unexpected response format")>>)
    ELSE IF r.status_code = 422 THEN
        validation_error(r, "Invalid pagination parameters")
    ELSE unexpected_status(r)

vote_on_poll_body(r) ==
    IF r.status_code = 200 THEN
        LET j == json(r.body)
            vote_data == j.detail
        IN
        IF j.tag = "raise" THEN R(j, "200", <<Log("info", "Status")>>)
        ELSE IF ~HasGet(vote_data)
        THEN R(Raise("AttributeError", "object has no attribute 'get'", NoDetail),
               "200", <<Log("info", "Status")>>)
        ELSE IF required_fields("vote_on_poll") \subseteq vote_data.has
        THEN R(Return(vote_data), "200",
               <<Log("info", "Status"), Log("info", "Vote cast successfully")>>)
        ELSE missing_fields(vote_data,
                            <<Log("info", "Status"), Log("info", "Vote cast successfully")>>)
    ELSE IF r.status_code = 401 THEN
        text_error(r, "401", "Unauthorized - Invalid or expired token", "Authentication failed")
    ELSE IF r.status_code = 404 THEN
        text_error(r, "404", "not found", "Poll or option not found")
    ELSE IF r.status_code = 422 THEN
        validation_error(r, "Invalid vote data")
    ELSE unexpected_status(r)

----------------------------------------------------------------------------
(* get_poll_results: never raises on purpose, returns the poll or None *)

\* the option loop: every option must be a dict with 'id' and 'text'
options_valid(options) ==
    \A i \in 1..Len(options.items) :
        options.items[i].t = "dict" /\ OptionFields \subseteq options.items[i].has

\* the statements inside the inner `try:` of the 200 arm
get_poll_results_parse(r) ==
    LET j == json(r.body)
        poll_data == j.detail
    IN
    IF j.tag = "raise" THEN R(j, "200", <<Log("info", "Status")>>)
    ELSE IF ~CanContain(poll_data)
    THEN R(Raise("TypeError", "argument is not iterable", NoDetail),
           "200", <<Log("info", "Status")>>)
    ELSE IF ~(required_fields("get_poll_results") \subseteq poll_data.has)
    THEN R(Return(PyNone), "200",
           <<Log("info", "Status"), Log("error", "Missing required fields")>>)
    ELSE IF poll_data.t # "dict"
    THEN \* poll_data['options'] on a list or a str
         R(Raise("TypeError", "indices must be integers", NoDetail),
           "200", <<Log("info", "Status")>>)
    ELSE IF poll_data.options.t # "list"
    THEN R(Return(PyNone), "200",
           <<Log("info", "Status"), Log("error", "Invalid options format")>>)
    ELSE IF ~options_valid(poll_data.options)
    THEN R(Return(PyNone), "200",
           <<Log("info", "Status"), Log("error", "Invalid option structure")>>)
    ELSE R(Return(poll_data), "200",
           <<Log("info", "Status"), Log("info", "Successfully retrieved")>>)

\* a get_poll_results whose inner try has no except clause
except_ValueError_absent(res) == res

\* `except ValueError as e:` of the inner try
except_ValueError(res) ==
    IF res.outcome.tag = "raise" /\ IsA(res.outcome.exc, "ValueError")
    THEN R(Return(PyNone), res.branch,
           Append(res.log, Log("error", "Failed to parse JSON response")))
    ELSE res

get_poll_results_body(r) ==
    IF r.status_code = 200 THEN except_ValueError(get_poll_results_parse(r))
    ELSE IF r.status_code = 401 THEN
        R(Return(PyNone), "401", <<Log("info", "Status"), Log("error", "Authentication failed")>>)
    ELSE IF r.status_code = 404 THEN
        R(Return(PyNone), "404", <<Log("info", "Status"), Log("error", "not found")>>)
    ELSE IF r.status_code = 422 THEN
        R(Return(PyNone), "422", <<Log("info", "Status"), Log("error", "Validation error")>>)
    ELSE R(Return(PyNone), "else",
           <<Log("info", "Status"), Log("error", "Unexpected response code")>>)

\* the three outer `except` clauses, tried in source order
get_poll_results_except(res) ==
    IF res.outcome.tag # "raise" THEN res
    ELSE IF IsA(res.outcome.exc, "ConnectionError")
    THEN R(Return(PyNone), res.branch, Append(res.log, Log("error", "Failed to connect")))
    ELSE IF IsA(res.outcome.exc, "Timeout")
    THEN R(Return(PyNone), res.branch, Append(res.log, Log("error", "Request timed out")))
    ELSE IF IsA(res.outcome.exc, "RequestException")
    THEN R(Return(PyNone), res.branch, Append(res.log, Log("error", "Request failed")))
    ELSE res

----------------------------------------------------------------------------
(* Arguments and requests *)

Str(s) == [ty |-> "str", s |-> s]

\* the argument None; an f-string formats it as "None"
NoneArg == [ty |-> "NoneType", s |-> "None"]

\* bool(v) for an argument: None and "" are falsy
Truthy(v) == v.ty # "NoneType" /\ v.s # ""

AccessTokens == {Str(""), Str("tok")}

\* base_url: a host followed by n slashes
Url(host, n) == [ty |-> "str", host |-> host, slashes |-> n]

BaseUrls == {Url("http://h", n) : n \in 0..MaxSlashes}

\* base_url values get_poll_results also guards against: "", None, a non-str
BadBaseUrls ==
    {Url("", 0), [ty |-> "NoneType", host |-> "", slashes |-> 0],
     [ty |-> "int", host |-> "8000", slashes |-> 0]}

Int_(n) == [ty |-> "int", n |-> n]

PollIds == {Int_(n) : n \in 1..MaxId}

\* poll_id values get_poll_results also guards against; True is an int in Python
LoosePollIds ==
    {Int_(n) : n \in (0 - 1)..MaxId}
      \cup {[ty |-> "str", n |-> 1], [ty |-> "bool", n |-> 1], [ty |-> "bool", n |-> 0]}

\* f"{base_url.rstrip('/')}<path>": every trailing slash is dropped
endpoint(base_url, path, id) == [host |-> base_url.host, slashes |-> 0, path |-> path, id |-> id]

Bearer(access_token) == [scheme |-> "Bearer", token |-> access_token.s]

NoHeader == [scheme |-> "absent", token |-> ""]

\* seconds passed as timeout= by get_poll_results
RequestTimeout == 30

Request(method, url, content_type, accept, auth, timeout) ==
    [method |-> method, url |-> url, content_type |-> content_type,
     accept |-> accept, authorization |-> auth, timeout |-> timeout]

\* a get_poll_results that formats the header without testing the token
authorization_unconditional(o, access_token) ==
    IF o \in {"create_poll", "vote_on_poll", "get_poll_results"}
    THEN Bearer(access_token)
    ELSE NoHeader

\* the Authorization header each function puts on its request
authorization(o, access_token) ==
    CASE o \in {"create_poll", "vote_on_poll"} -> Bearer(access_token)
      [] o = "get_poll_results" ->
            IF Truthy(access_token) THEN Bearer(access_token) ELSE NoHeader
      [] OTHER -> NoHeader

\* a function that sends the request again after a failure
requests_retried(req, r) ==
    IF r.net # "ok" \/ r.status_code >= 500 \/ r.body.kind = "text"
    THEN <<req, req>>
    ELSE <<req>>

\* the calls of requests.post / requests.get one invocation makes: the
\* single call in the try block, whatever the transport answers
requests_made(req, r) == <<req>>

\* the exception requests.post / requests.get raised
transport_error(r) == R(Raise(r.net, "transport", NoDetail), "none", <<>>)

----------------------------------------------------------------------------
(* The state machine: one invocation *)

NoOutcome == [tag |-> "none", exc |-> "none", message |-> "none", detail |-> NoDetail]

Init ==
    /\ pc = "idle"
    /\ op = "none"
    /\ args = [base_url |-> Url("", 0)]
    /\ response = NoResponse
    /\ sent = << >>
    /\ branch = "none"
    /\ outcome = NoOutcome
    /\ log = << >>
    /\ jsonErrorIsRequestException \in BOOLEAN

\* the call returned or raised: record what happened
Finish(o, a, r, reqs, res) ==
    /\ pc' = "done"
    /\ op' = o
    /\ args' = a
    /\ response' = r
    /\ sent' = reqs
    /\ branch' = res.branch
    /\ outcome' = res.outcome
    /\ log' = res.log
    /\ UNCHANGED jsonErrorIsRequestException

\* the try block of a raising operation, from the request to its except clause
run(o, r) ==
    except_RequestException(o,
        IF r.net # "ok" THEN transport_error(r)
        ELSE CASE o = "register_user" -> register_user_body(r)
               [] o = "create_poll"   -> create_poll_body(r)
               [] o = "fetch_polls"   -> fetch_polls_body(r)
               [] o = "vote_on_poll"  -> vote_on_poll_body(r))

register_user ==
    /\ pc = "idle"
    /\ \E base_url \in BaseUrls, r \in Responses :
        LET req == Request("POST", endpoint(base_url, "/register", Int_(0)),
                           "application/json", "absent",
                           authorization("register_user", NoneArg), 0)
        IN Finish("register_user",
                  [base_url |-> base_url, username |-> "john_doe", password |-> "secret"],
                  r, requests_made(req, r), run("register_user", r))

create_poll ==
    /\ pc = "idle"
    /\ \E base_url \in BaseUrls, access_token \in AccessTokens, r \in Responses :
        LET req == Request("POST", endpoint(base_url, "/polls", Int_(0)),
                           "application/json", "absent",
                           authorization("create_poll", access_token), 0)
        IN Finish("create_poll",
                  [base_url |-> base_url, question |-> "Q", access_token |-> access_token],
                  r, requests_made(req, r), run("create_poll", r))

fetch_polls ==
    /\ pc = "idle"
    /\ \E base_url \in BaseUrls, r \in Responses :
        LET req == Request("GET", endpoint(base_url, "/polls", Int_(0)),
                           "absent", "absent",
                           authorization("fetch_polls", NoneArg), 0)
        IN Finish("fetch_polls",
                  [base_url |-> base_url, skip |-> 0, limit |-> 10],
                  r, requests_made(req, r), run("fetch_polls", r))

vote_on_poll ==
    /\ pc = "idle"
    /\ \E base_url \in BaseUrls, poll_id \in PollIds,
          access_token \in AccessTokens, r \in Responses :
        LET req == Request("POST", endpoint(base_url, "/polls/{poll_id}/vote", poll_id),
                           "application/json", "absent",
                           authorization("vote_on_poll", access_token), 0)
        IN Finish("vote_on_poll",
                  [base_url |-> base_url, poll_id |-> poll_id, option_id |-> Int_(1),
                   access_token |-> access_token],
                  r, requests_made(req, r), run("vote_on_poll", r))

\* a check that is off by one and lets poll_id 0 through
valid_poll_id_nonnegative(poll_id) == poll_id.ty \in {"int", "bool"} /\ poll_id.n >= 0

\* `isinstance(poll_id, int) and poll_id > 0`
valid_poll_id(poll_id) == poll_id.ty \in {"int", "bool"} /\ poll_id.n > 0

\* `base_url and isinstance(base_url, str)`
valid_base_url(base_url) ==
    base_url.ty = "str" /\ (base_url.host # "" \/ base_url.slashes > 0)

\* get_poll_results from its first statement to its return
get_poll_results_run(a, r) ==
    IF ~valid_poll_id(a.poll_id)
    THEN R(Return(PyNone), "none", <<Log("error", "Invalid poll_id")>>)
    ELSE IF ~valid_base_url(a.base_url)
    THEN R(Return(PyNone), "none", <<Log("error", "Invalid base_url")>>)
    ELSE get_poll_results_except(
            IF r.net # "ok" THEN transport_error(r) ELSE get_poll_results_body(r))

get_poll_results ==
    /\ pc = "idle"
    /\ \E base_url \in BaseUrls \cup BadBaseUrls, poll_id \in LoosePollIds,
          access_token \in AccessTokens \cup {NoneArg} :
        LET a == [base_url |-> base_url, poll_id |-> poll_id, access_token |-> access_token]
            req == Request("GET", endpoint(base_url, "/polls/{poll_id}", poll_id),
                           "application/json", "application/json",
                           authorization("get_poll_results", access_token), RequestTimeout)
        IN IF valid_poll_id(poll_id) /\ valid_base_url(base_url)
           THEN \E r \in Responses :
                    Finish("get_poll_results", a, r, requests_made(req, r),
                           get_poll_results_run(a, r))
           ELSE Finish("get_poll_results", a, NoResponse, << >>,
                       get_poll_results_run(a, NoResponse))

Next ==
    \/ register_user
    \/ create_poll
    \/ fetch_polls
    \/ vote_on_poll
    \/ get_poll_results

Spec == Init /\ [][Next]_vars

----------------------------------------------------------------------------
(* Vocabulary of the properties *)

RaisingOperations == {"register_user", "create_poll", "fetch_polls", "vote_on_poll"}

\* the call is over and the transport delivered a response
Answered == pc = "done" /\ response.net = "ok"

\* the call is over and the transport raised instead of answering
TransportFailed == pc = "done" /\ response.net \in TransportErrors

\* a value other than None came back
Succeeded == outcome.tag = "return" /\ outcome.detail # PyNone

\* a failure came back through the channel the function documents: None for
\* get_poll_results, a ValueError or a RequestException for the others
FailureReported ==
    IF op = "get_poll_results"
    THEN outcome = Return(PyNone)
    ELSE /\ outcome.tag = "raise"
         /\ IsA(outcome.exc, "ValueError") \/ IsA(outcome.exc, "RequestException")

\* the body json() parsed, for a response whose body is JSON
Parsed == response.body.val

\* a poll list all of whose elements are objects
ListOfObjects(v) == v.t = "list" /\ \A i \in 1..Len(v.items) : v.items[i].t = "dict"

\* the last record written to the log
LastLog == log[Len(log)]

----------------------------------------------------------------------------
(* C1: for each of the five operations and every response with status in   *)
(* {200, 400, 401, 404, 422, 500} and any body, the call ends in exactly    *)
(* one outcome: a success value is returned, or a failure is reported (a    *)
(* raised ValueError / RequestException, or None for get_poll_results),     *)
(* never both and never neither.  (The claim's second half, that two calls  *)
(* with the same status and body end alike, compares two invocations; the   *)
(* half stated here is the one the code breaks.)                            *)
C1_ExactlyOneOutcome ==
    (Answered /\ response.status_code \in {200, 400, 401, 404, 422, 500})
        => (Succeeded # FailureReported)

(* C2: in the four raising operations, every status the operation has no   *)
(* arm for (any code outside 200 and its enumerated error codes, 2xx and    *)
(* 3xx included) ends in a failure raised to the caller; the call never     *)
(* returns normally for such a status.                                      *)
C2_UnexpectedStatusRaises ==
    (Answered /\ op \in RaisingOperations /\ branch = "else")
        => (outcome.tag = "raise" /\ IsA(outcome.exc, "RequestException"))

C4_CompleteBodyReturnedUnchanged ==
    (/\ Answered /\ response.status_code = 200 /\ response.body.kind = "json"
     /\ IF op = "fetch_polls"
        THEN /\ ListOfObjects(Parsed)
             /\ \A i \in 1..Len(Parsed.items) :
                    required_fields(op) \subseteq Parsed.items[i].has
        ELSE Parsed.t = "dict" /\ required_fields(op) \subseteq Parsed.has)
        => outcome = Return(Parsed)

(* C5 as claimed: for create_poll, vote_on_poll and get_poll_results a 200 *)
(* response with a JSON object in which one or more required fields are    *)
(* missing (for fetch_polls: a JSON list of objects, one of which misses a  *)
(* field) still yields success with the parsed body returned.               *)
MissingRequiredFields ==
    /\ Answered /\ response.status_code = 200 /\ response.body.kind = "json"
    /\ IF op = "fetch_polls"
       THEN /\ ListOfObjects(Parsed)
            /\ \E i \in 1..Len(Parsed.items) :
                    ~(required_fields(op) \subseteq Parsed.items[i].has)
       ELSE /\ op \in {"create_poll", "vote_on_poll", "get_poll_results"}
            /\ Parsed.t = "dict"
            /\ ~(required_fields(op) \subseteq Parsed.has)

C5_Original_MissingFieldsStillSucceed ==
    MissingRequiredFields => outcome = Return(Parsed)

(* C5, amended: create_poll and vote_on_poll (JSON object missing required *)
(* fields) and fetch_polls (JSON list of objects, some missing required     *)
(* fields) return the parsed body and only log a warning; get_poll_results  *)
(* treats the omission as a failure: it logs an error and returns None.     *)
C5_MissingFieldsLenientExceptResults ==
    MissingRequiredFields =>
        IF op = "get_poll_results"
        THEN outcome = Return(PyNone) /\ LastLog = Log("error", "Missing required fields")
        ELSE /\ outcome = Return(Parsed)
             /\ LastLog = Log("warning", "missing required fields")
             /\ \A i \in 1..Len(log) : log[i].level # "error"

\* vote_on_poll got a 200 with an object that lacks a required field and
\* returned it
C5_Witness ==
    /\ MissingRequiredFields /\ op = "vote_on_poll"
    /\ "id" \notin Parsed.has
    /\ outcome.tag = "return"

(* C6: in the four raising operations a 422 always yields a ValueError     *)
(* whose detail is the sentinel "Validation error" when the body is empty   *)
(* and the parsed body otherwise, for every body; a 422 is never reported   *)
(* as any other failure kind.                                               *)
C6_ValidationErrorFor422 ==
    (Answered /\ op \in RaisingOperations /\ response.status_code = 422)
        => /\ outcome.tag = "raise" /\ outcome.exc = "ValueError"
           /\ outcome.message \in {"Invalid input data", "Invalid poll data",
                                   "Invalid pagination parameters", "Invalid vote data"}
           /\ outcome.detail =
                 IF response.body.kind = "empty" THEN ValidationSentinel ELSE Parsed

(* C7 as claimed: a 401 is classified by all five operations alike, as an  *)
(* Unauthorized failure whose detail is the response body text.             *)
Unauthorized == Raise("ValueError", "Unauthorized - Invalid or expired token", response.body)

C7_Original_401UniformlyUnauthorized ==
    (Answered /\ response.status_code = 401) => outcome = Unauthorized

(* C7, amended: a 401 on create_poll and on vote_on_poll yields the same   *)
(* Unauthorized ValueError carrying the body text; register_user and        *)
(* fetch_polls have no 401 arm and raise the RequestException of their      *)
(* unexpected-status path; get_poll_results returns None.                   *)
C7_401UnauthorizedWhereHandled ==
    (Answered /\ response.status_code = 401) =>
        CASE op \in {"create_poll", "vote_on_poll"} ->
                branch = "401" /\ outcome = Unauthorized
          [] op \in {"register_user", "fetch_polls"} ->
                /\ branch = "else"
                /\ outcome = Raise("RequestException", FailedMessage(op), [cause |-> "HTTPError"])
          [] OTHER ->
                branch = "401" /\ outcome = Return(PyNone)

\* vote_on_poll got a 401 with a text body and raised
C7_Witness ==
    /\ Answered /\ op = "vote_on_poll" /\ response.status_code = 401
    /\ response.body.kind = "text" /\ outcome.tag = "raise"

(* C8 as claimed: a transport-level failure happens before any status     *)
(* code exists, no status arm is taken, and the outcome the caller gets is  *)
(* a failure whose kind tells the three cases apart: Unreachable, Timeout,  *)
(* or generic network failure.                                              *)

\* the failure kind of a requests exception class
KindOfClass(e) ==
    CASE IsA(e, "ConnectionError") -> "Unreachable"
      [] IsA(e, "Timeout")         -> "Timeout"
      [] IsA(e, "RequestException") -> "Network"
      [] OTHER                     -> "none"

\* the failure kind the caller can read off what it got back
ReportedKind == IF outcome.tag = "raise" THEN KindOfClass(outcome.exc) ELSE "none"

C8_Original_TransportKindsDistinguished ==
    TransportFailed =>
        /\ branch = "none"
        /\ ReportedKind = KindOfClass(response.net)

(* C8, amended: a transport-level failure happens before any status code   *)
(* exists and no status arm is taken; the outcome is a failure, but its     *)
(* kind does not tell the cases apart: the four raising operations raise a  *)
(* plain RequestException for all of them (the original exception only      *)
(* inside the message), and get_poll_results returns None for all of them,  *)
(* telling connection failure, timeout and other errors apart only in its   *)
(* log.                                                                     *)
C8_TransportFailureReported ==
    TransportFailed =>
        /\ branch = "none"
        /\ Len(sent) = 1
        /\ IF op = "get_poll_results"
           THEN /\ outcome = Return(PyNone)
                /\ LastLog.level = "error"
                /\ LastLog.text =
                      CASE response.net \in {"ConnectionError", "ConnectTimeout"} -> "Failed to connect"
                        [] response.net = "ReadTimeout" -> "Request timed out"
                        [] OTHER -> "Request failed"
           ELSE /\ outcome = Raise("RequestException", FailedMessage(op),
                                   [cause |-> response.net])
                /\ LastLog = Log("error", "Network error")

\* fetch_polls met a read timeout and raised
C8_Witness ==
    /\ TransportFailed /\ op = "fetch_polls" /\ response.net = "ReadTimeout"
    /\ outcome.tag = "raise"

(* C9: every invocation issues at most one HTTP request before it returns  *)
(* or raises: after an error status, a parse failure or a transport failure *)
(* the request is never sent again; register_user, create_poll, fetch_polls *)
(* and vote_on_poll issue exactly one request per call.                     *)
C9_SingleRequestPerCall ==
    pc = "done" =>
        /\ Len(sent) <= 1
        /\ op \in RaisingOperations => Len(sent) = 1

\* vote_on_poll failed on a 500 and has sent its one request
C9_Witness ==
    /\ Answered /\ op = "vote_on_poll" /\ response.status_code = 500
    /\ outcome.tag = "raise" /\ Len(sent) = 1

(* C10: the Authorization header "Bearer <token>" is on the request of     *)
(* create_poll and vote_on_poll on every call, never on the request of      *)
(* register_user or fetch_polls, and on the request of get_poll_results if  *)
(* and only if a non-empty access token was supplied; the token is sent     *)
(* unchanged.                                                               *)
C10_AuthorizationHeader ==
    pc = "done" =>
        /\ op \in {"create_poll", "vote_on_poll"} =>
              /\ Len(sent) = 1
              /\ sent[1].authorization =
                    [scheme |-> "Bearer", token |-> args.access_token.s]
        /\ op \in {"register_user", "fetch_polls"} =>
              \A i \in 1..Len(sent) : sent[i].authorization.scheme = "absent"
        /\ op = "get_poll_results" =>
              \A i \in 1..Len(sent) :
                  IF args.access_token.ty = "str" /\ args.access_token.s # ""
                  THEN sent[i].authorization =
                          [scheme |-> "Bearer", token |-> args.access_token.s]
                  ELSE sent[i].authorization.scheme = "absent"

\* get_poll_results sent its request for a call that passed no token
C10_Witness ==
    /\ pc = "done" /\ op = "get_poll_results" /\ Len(sent) = 1
    /\ args.access_token = NoneArg
    /\ sent[1].authorization.scheme = "absent"

(* C11: get_poll_results never lets an exception escape: for every input,  *)
(* every response status, every body (not JSON, or any JSON value, a number,*)
(* null, a string or a list included) and every transport failure, it       *)
(* returns either the parsed poll object or None.                           *)
C11_ResultsNeverRaises ==
    (pc = "done" /\ op = "get_poll_results") =>
        /\ outcome.tag = "return"
        /\ outcome.detail = PyNone
             \/ (response.net = "ok" /\ response.body.kind = "json"
                   /\ Parsed.t = "dict" /\ outcome.detail = Parsed)

(* C12: when get_poll_results is called with a poll_id that is not a      *)
(* positive integer, or with a base_url that is empty or not a string, it   *)
(* returns None and no HTTP request is issued; a request is issued only     *)
(* after both checks pass.  (Integer is meant as Python means it: True is   *)
(* the integer 1 and False the integer 0.)                                  *)

\* the argument is an integer of value 1 or more
PositiveInteger(p) == p.ty \in {"int", "bool"} /\ p.n >= 1

\* the argument is a string of at least one character
NonEmptyString(b) == b.ty = "str" /\ ~(b.host = "" /\ b.slashes = 0)

C12_InvalidArgumentsSendNothing ==
    (pc = "done" /\ op = "get_poll_results") =>
        /\ (~PositiveInteger(args.poll_id) \/ ~NonEmptyString(args.base_url))
              => /\ outcome = Return(PyNone)
                 /\ sent = << >>
                 /\ response = NoResponse
                 /\ branch = "none"
        /\ sent # << >>
              => PositiveInteger(args.poll_id) /\ NonEmptyString(args.base_url)

\* get_poll_results was called with poll_id 0 and a good base_url, and
\* returned None without sending anything
C12_Witness ==
    /\ pc = "done" /\ op = "get_poll_results"
    /\ args.poll_id = Int_(0) /\ NonEmptyString(args.base_url)
    /\ outcome = Return(PyNone) /\ sent = << >>

====
